---- MODULE Spec2Model ----
(***************************************************************************)
(* Worktree reclamation of ccs (src/cleanup.rs): the orphan classifier     *)
(* should_cleanup_worktree, the removal remove_worktree and the pass       *)
(* lazy_cleanup that walks <data-root>/<repo>/<worktree>.                   *)
(*                                                                         *)
(* Time is counted in milliseconds.  The output of an external command is  *)
(* a record [spawned, success, stdout]; stdout is a sequence of tokens.    *)
(***************************************************************************)
EXTENDS Integers, Sequences, FiniteSets, TLC

VARIABLES
    rootState,   \* the data root <data_dir>/ccs: "ok", "missing", "unreadable", "nodatadir"
    repos,       \* repository-name directory -> "absent", "dir", "file", "unreadable"
    entries,     \* worktree path <<repo, name>> -> the entry on disk (a record, see Absent)
    containers,  \* paths the container engine reports as mounted by running ccs containers
    engineOk,    \* whether the container runtime is detected and `ps` succeeds
    verbose,     \* the CCS_VERBOSE environment variable: "unset", "set", "notunicode"
    now,         \* the system clock, in milliseconds
    pc,          \* position of the pass: "idle", "repos", "entries"
    running,     \* running_containers, the snapshot the pass took
    repoQueue,   \* repository directories the outer loop has still to visit
    cur,         \* repo_dir of the outer loop
    entryQueue,  \* entries the inner loop has still to visit
    result,      \* the CleanupResult under construction
    returned,    \* results the passes returned so far, oldest first
    since,       \* what happened since the last pass returned
    trace,       \* per candidate processed: pass, path, decision, queries, outcome
    pending,     \* the candidate classified and not yet acted on (pass in two steps)
    nested,      \* worktree path -> the worktree one level below it (a record, see Absent)
    branches,    \* local branches of the canonical repository
    head,        \* HEAD of the canonical repository: "ok" or "unborn"
    prov,        \* the create_worktree call in progress
    calls        \* the calls of create_worktree and detect that returned, oldest first

vars == <<rootState, repos, entries, containers, engineOk, verbose, now, pc,
          running, repoQueue, cur, entryQueue, result, returned, since, trace,
          pending, nested, branches, head, prov, calls>>

(* the variables of provisioning *)
provVars == <<branches, head, prov, calls>>

----------------------------------------------------------------------------
(* Bounds of the model *)

MaxCandidates == 2
MaxPasses == 2

(* Program constants *)

GraceSecs == 3600

Bases == <<"main", "master", "origin/main", "origin/master">>

----------------------------------------------------------------------------
(* The on-disk namespace: two levels under the data root *)

RepoOrder == <<"demo", "other">>
Repos == {RepoOrder[i] : i \in 1..Len(RepoOrder)}

SlotOrder == << <<"demo", "feature-x">>, <<"demo", "wip">>, <<"other", "feature-x">> >>
Slots == {SlotOrder[i] : i \in 1..Len(SlotOrder)}

Range(s) == {s[i] : i \in 1..Len(s)}

----------------------------------------------------------------------------
(* Outputs of external commands *)

SpawnErr == [spawned |-> FALSE, success |-> FALSE, stdout |-> <<>>]
Exit(ok, out) == [spawned |-> TRUE, success |-> ok, stdout |-> out]

Whitespace == {" ", "\n", "\t"}

RECURSIVE TrimStart(_)
TrimStart(s) ==
    IF s # <<>> /\ Head(s) \in Whitespace THEN TrimStart(Tail(s)) ELSE s

RECURSIVE TrimEnd(_)
TrimEnd(s) ==
    IF s # <<>> /\ s[Len(s)] \in Whitespace
    THEN TrimEnd(SubSeq(s, 1, Len(s) - 1)) ELSE s

Trim(s) == TrimEnd(TrimStart(s))

StatusOuts ==
    { SpawnErr,
      Exit(TRUE, <<>>),
      Exit(TRUE, <<"??", " ", "notes.txt", "\n">>),
      Exit(FALSE, <<>>) }

BranchOuts ==
    { SpawnErr,
      Exit(TRUE, <<"main", "\n">>),
      Exit(TRUE, <<"master", "\n">>),
      Exit(TRUE, <<"feature-x", "\n">>),
      Exit(TRUE, <<>>),
      Exit(FALSE, <<>>) }

LogOuts ==
    { SpawnErr,
      Exit(FALSE, <<>>),
      Exit(TRUE, <<>>),
      Exit(TRUE, <<"abc1234", " ", "wip", "\n">>) }

----------------------------------------------------------------------------
(* Entries on disk *)

Absent ==
    [ kind    |-> "absent",
      pointer |-> "none",
      status  |-> SpawnErr,
      branch  |-> SpawnErr,
      log     |-> [i \in 1..Len(Bases) |-> SpawnErr],
      meta    |-> "err",
      mtime   |-> 0,
      gitRm   |-> "err",
      rawRm   |-> "fail" ]

----------------------------------------------------------------------------
(* CleanupDecision *)

Remove(reason) == [kind |-> "Remove", reason |-> reason]
Keep(reason) == [kind |-> "Keep", reason |-> reason]

(* variant: only a command that cannot run counts as a change *)
has_uncommitted_changes_ErrOnly(c) == ~c.status.spawned

(* has_uncommitted_changes: true when the command cannot run or prints anything *)
has_uncommitted_changes(c) ==
    IF c.status.spawned THEN c.status.stdout # <<>> ELSE TRUE

(* variant: the exit status of the log query is not looked at *)
RECURSIVE log_loop_AnyExit(_, _, _)
log_loop_AnyExit(c, i, asked) ==
    IF i > Len(Bases)
    THEN [answer |-> TRUE, asked |-> asked]
    ELSE LET o == c.log[i]
         IN  IF o.spawned
             THEN [answer |-> o.stdout # <<>>, asked |-> Append(asked, Bases[i])]
             ELSE log_loop_AnyExit(c, i + 1, Append(asked, Bases[i]))

(* variant: a branch no base answers for counts as merged *)
RECURSIVE log_loop_DefaultMerged(_, _, _)
log_loop_DefaultMerged(c, i, asked) ==
    IF i > Len(Bases)
    THEN [answer |-> FALSE, asked |-> asked]
    ELSE LET o == c.log[i]
         IN  IF o.spawned /\ o.success
             THEN [answer |-> o.stdout # <<>>, asked |-> Append(asked, Bases[i])]
             ELSE log_loop_DefaultMerged(c, i + 1, Append(asked, Bases[i]))

(* the loop over the base branches of has_unmerged_commits, from base i on:
   the answer, and the bases whose log query was run *)
RECURSIVE log_loop(_, _, _)
log_loop(c, i, asked) ==
    IF i > Len(Bases)
    THEN [answer |-> TRUE, asked |-> asked]
    ELSE LET o == c.log[i]
         IN  IF o.spawned /\ o.success
             THEN [answer |-> o.stdout # <<>>, asked |-> Append(asked, Bases[i])]
             ELSE log_loop(c, i + 1, Append(asked, Bases[i]))

unmerged_query(c) ==
    IF ~c.branch.spawned
    THEN [answer |-> TRUE, asked |-> <<>>]
    ELSE LET branch == Trim(c.branch.stdout)
         IN  IF branch = <<"main">> \/ branch = <<"master">>
             THEN [answer |-> FALSE, asked |-> <<>>]
             ELSE log_loop(c, 1, <<>>)

has_unmerged_commits(c) == unmerged_query(c).answer

(* Duration::as_secs of a duration in milliseconds *)
as_secs(d) == d \div 1000

(* variant: the grace window includes its end *)
recently_modified_Inclusive(c, t) ==
    /\ c.meta = "ok"
    /\ t >= c.mtime
    /\ as_secs(t - c.mtime) <= GraceSecs

(* the age check of should_cleanup_worktree: TRUE when the worktree is kept
   as recently modified *)
recently_modified(c, t) ==
    /\ c.meta = "ok"
    /\ t >= c.mtime
    /\ as_secs(t - c.mtime) < GraceSecs

(* variant: the pointer file is looked for before the running set *)
should_cleanup_worktree_PointerFirst(path, c, running_containers, t) ==
    IF c.pointer = "none"
    THEN Remove("not a git worktree")
    ELSE IF path \in running_containers
    THEN Keep("container is running")
    ELSE IF has_uncommitted_changes(c)
    THEN Keep("has uncommitted changes")
    ELSE IF has_unmerged_commits(c)
    THEN Keep("branch has unmerged commits")
    ELSE IF recently_modified(c, t)
    THEN Keep("recently modified")
    ELSE Remove("no changes, no running container")

(* variant: the pointer file is looked for after the status query *)
should_cleanup_worktree_StatusFirst(path, c, running_containers, t) ==
    IF path \in running_containers
    THEN Keep("container is running")
    ELSE IF has_uncommitted_changes(c)
    THEN Keep("has uncommitted changes")
    ELSE IF c.pointer = "none"
    THEN Remove("not a git worktree")
    ELSE IF has_unmerged_commits(c)
    THEN Keep("branch has unmerged commits")
    ELSE IF recently_modified(c, t)
    THEN Keep("recently modified")
    ELSE Remove("no changes, no running container")

should_cleanup_worktree(path, c, running_containers, t) ==
    IF path \in running_containers
    THEN Keep("container is running")
    ELSE IF c.pointer = "none"
    THEN Remove("not a git worktree")
    ELSE IF has_uncommitted_changes(c)
    THEN Keep("has uncommitted changes")
    ELSE IF has_unmerged_commits(c)
    THEN Keep("branch has unmerged commits")
    ELSE IF recently_modified(c, t)
    THEN Keep("recently modified")
    ELSE Remove("no changes, no running container")

(* the base branches whose log query a classification runs *)
log_queries(path, c, running_containers) ==
    IF \/ path \in running_containers
       \/ c.pointer = "none"
       \/ has_uncommitted_changes(c)
    THEN <<>>
    ELSE unmerged_query(c).asked

----------------------------------------------------------------------------
(* remove_worktree: the outcome and what is left of the entry.  The structured
   removal runs when the pointer file leads to a canonical repository; every
   other case falls through to the recursive deletion. *)
remove_ok == [ok |-> TRUE, err |-> "", after |-> Absent]

(* the strategies a removal has run, in order: "git" for git worktree remove
   --force, "raw" for remove_dir_all *)
Tried(r, tried) ==
    [ok |-> r.ok, err |-> r.err, after |-> r.after, tried |-> tried]

(* variant: the error of the recursive deletion is dropped *)
remove_worktree_RawErrIgnored(c, t) ==
    IF c.pointer = "ok" /\ c.gitRm = "ok"
    THEN Tried(remove_ok, <<"git">>)
    ELSE Tried(CASE c.rawRm = "ok" -> remove_ok
                 [] c.rawRm = "partial" ->
                      [ok |-> TRUE, err |-> "",
                       after |-> [c EXCEPT !.pointer = "none", !.mtime = t]]
                 [] OTHER -> [ok |-> TRUE, err |-> "", after |-> c],
               IF c.pointer = "ok" THEN <<"git", "raw">> ELSE <<"raw">>)

(* variant: the structured removal only unregisters the worktree and leaves
   its directory *)
remove_worktree_LeavesDir(c, t) ==
    IF c.pointer = "ok" /\ c.gitRm = "ok"
    THEN Tried([ok |-> TRUE, err |-> "", after |-> c], <<"git">>)
    ELSE Tried(CASE c.rawRm = "ok" -> remove_ok
                 [] c.rawRm = "partial" ->
                      [ok |-> FALSE, err |-> "failed to remove directory: ",
                       after |-> [c EXCEPT !.pointer = "none", !.mtime = t]]
                 [] OTHER ->
                      [ok |-> FALSE, err |-> "failed to remove directory: ",
                       after |-> c],
               IF c.pointer = "ok" THEN <<"git", "raw">> ELSE <<"raw">>)

(* variant: a failure of the structured removal is the result *)
remove_worktree_NoFallback(c, t) ==
    IF c.pointer = "ok"
    THEN IF c.gitRm = "ok"
         THEN Tried(remove_ok, <<"git">>)
         ELSE Tried([ok |-> FALSE, err |-> "failed to remove directory: ",
                     after |-> c], <<"git">>)
    ELSE Tried(CASE c.rawRm = "ok" -> remove_ok
                 [] c.rawRm = "partial" ->
                      [ok |-> FALSE, err |-> "failed to remove directory: ",
                       after |-> [c EXCEPT !.pointer = "none", !.mtime = t]]
                 [] OTHER ->
                      [ok |-> FALSE, err |-> "failed to remove directory: ",
                       after |-> c],
               <<"raw">>)

remove_worktree(c, t) ==
    IF c.pointer = "ok" /\ c.gitRm = "ok"
    THEN Tried(remove_ok, <<"git">>)
    ELSE Tried(CASE c.rawRm = "ok" -> remove_ok
                 [] c.rawRm = "partial" ->
                      [ok |-> FALSE, err |-> "failed to remove directory: ",
                       after |-> [c EXCEPT !.pointer = "none", !.mtime = t]]
                 [] OTHER ->
                      [ok |-> FALSE, err |-> "failed to remove directory: ",
                       after |-> c],
               IF c.pointer = "ok" THEN <<"git", "raw">> ELSE <<"raw">>)

(* get_running_container_worktrees: empty on any failure of the engine *)
get_running_container_worktrees == IF engineOk THEN containers ELSE {}

(* variant: kept worktrees are always tracked *)
verbose_mode_Always == TRUE

(* std::env::var("CCS_VERBOSE").is_ok() *)
verbose_mode == verbose = "set"

(* Path::display and the two format! calls of lazy_cleanup, as token sequences *)
display(path) == <<path[1], "/", path[2]>>

(* variant: the reason of the decision is left out of the message *)
format_error_NoReason(path, e, reason) ==
    display(path) \o <<": ", e>>

format_error(path, e, reason) ==
    display(path) \o <<": ", e, " (reason: ", reason, ")">>

format_kept(reason) == <<"Kept: ", reason>>

(* CleanupResult::default() *)
CleanupResult == [removed |-> <<>>, kept |-> <<>>, errors |-> <<>>]

(* read_dir of the data root and of a repository directory, in traversal order *)
RepoListing == SelectSeq(RepoOrder, LAMBDA r : repos[r] # "absent")
EntryListing(r) ==
    SelectSeq(SlotOrder, LAMBDA p : p[1] = r /\ entries[p].kind # "absent")

(* no classification is waiting to be acted on *)
NoPending ==
    [path |-> <<>>, decision |-> Keep(""), seen |-> Absent, asked |-> <<>>,
     run |-> FALSE]

(* no create_worktree call is in progress *)
NoCall ==
    [pc |-> "none", repo_path |-> <<>>, branch_name |-> <<>>,
     create_branch |-> FALSE, path |-> <<>>, repo_name |-> "",
     git_dir |-> <<>>, pre |-> <<>>]

(* nothing was provisioned: one pass step per candidate, no nested worktree,
   a canonical repository without local branches *)
Unprovisioned ==
    /\ pending = NoPending
    /\ nested = [p \in Slots |-> Absent]
    /\ branches = {}
    /\ head = "ok"
    /\ prov = NoCall
    /\ calls = <<>>

----------------------------------------------------------------------------
(* lazy_cleanup, one action per step of its two loops *)

Pass == Len(returned) + 1

StartPass ==
    /\ pc = "idle"
    /\ Len(returned) < MaxPasses
    /\ result' = CleanupResult
    /\ pc' = "repos"
    /\ running' = IF rootState \in {"nodatadir", "missing"}
                  THEN {} ELSE get_running_container_worktrees
    /\ repoQueue' = IF rootState = "ok" THEN RepoListing ELSE <<>>
    /\ entryQueue' = <<>>
    /\ UNCHANGED <<rootState, repos, entries, containers, engineOk, verbose,
                   now, cur, returned, since, trace>>
    /\ UNCHANGED <<pending, nested, provVars>>

(* variant: a repository directory that cannot be listed ends the pass *)
NextRepo_AbortOnUnreadable ==
    /\ pc = "repos"
    /\ repoQueue # <<>>
    /\ LET repo_dir == Head(repoQueue)
       IN  IF repos[repo_dir] = "dir"
           THEN /\ repoQueue' = Tail(repoQueue)
                /\ cur' = repo_dir
                /\ entryQueue' = EntryListing(repo_dir)
                /\ pc' = "entries"
           ELSE /\ repoQueue' = <<>>
                /\ UNCHANGED <<cur, entryQueue, pc>>
    /\ UNCHANGED <<rootState, repos, entries, containers, engineOk, verbose,
                   now, running, result, returned, since, trace>>
    /\ UNCHANGED <<pending, nested, provVars>>

NextRepo ==
    /\ pc = "repos"
    /\ repoQueue # <<>>
    /\ LET repo_dir == Head(repoQueue)
       IN  /\ repoQueue' = Tail(repoQueue)
           /\ IF repos[repo_dir] = "dir"
              THEN /\ cur' = repo_dir
                   /\ entryQueue' = EntryListing(repo_dir)
                   /\ pc' = "entries"
              ELSE UNCHANGED <<cur, entryQueue, pc>>
    /\ UNCHANGED <<rootState, repos, entries, containers, engineOk, verbose,
                   now, running, result, returned, since, trace>>
    /\ UNCHANGED <<pending, nested, provVars>>

(* the body of the inner loop for one directory entry *)
ProcessEntry ==
    /\ pc = "entries"
    /\ entryQueue # <<>>
    /\ LET worktree_path == Head(entryQueue)
           c == entries[worktree_path]
           d == should_cleanup_worktree(worktree_path, c, running, now)
           r == remove_worktree(c, now)
           q == log_queries(worktree_path, c, running)
       IN  /\ entryQueue' = Tail(entryQueue)
           /\ nested' = IF c.kind = "dir" /\ d.kind = "Remove" /\ r.ok
                        THEN [nested EXCEPT ![worktree_path] = Absent]
                        ELSE nested
           /\ IF c.kind # "dir"
              THEN UNCHANGED <<entries, result, trace>>
              ELSE IF d.kind = "Remove"
              THEN /\ entries' = [entries EXCEPT ![worktree_path] = r.after]
                   /\ result' =
                        IF r.ok
                        THEN [result EXCEPT !.removed = Append(@, worktree_path)]
                        ELSE [result EXCEPT !.errors =
                                Append(@, format_error(worktree_path, r.err, d.reason))]
                   /\ trace' = Append(trace,
                        [pass |-> Pass, path |-> worktree_path, decision |-> d,
                         asked |-> q, rm |-> IF r.ok THEN "ok" ELSE "err", tried |-> r.tried,
                         before |-> c, at |-> now,
                         run |-> worktree_path \in running, gone |-> FALSE])
              ELSE /\ result' =
                        IF verbose_mode
                        THEN [result EXCEPT !.kept = Append(@, worktree_path),
                                            !.errors = Append(@, format_kept(d.reason))]
                        ELSE result
                   /\ trace' = Append(trace,
                        [pass |-> Pass, path |-> worktree_path, decision |-> d,
                         asked |-> q, rm |-> "none", tried |-> <<>>, before |-> c, at |-> now,
                         run |-> worktree_path \in running, gone |-> FALSE])
                   /\ UNCHANGED entries
    /\ UNCHANGED <<rootState, repos, containers, engineOk, verbose, now, pc,
                   running, repoQueue, cur, returned, since>>
    /\ UNCHANGED <<pending, provVars>>

(* variant: the repository directory is removed with what is left in it *)
FinishRepo_RemovesAny ==
    /\ pc = "entries"
    /\ entryQueue = <<>>
    /\ pc' = "repos"
    /\ \E rmdir_ok \in BOOLEAN :
          repos' = IF rmdir_ok
                   THEN [repos EXCEPT ![cur] = "absent"]
                   ELSE repos
    /\ UNCHANGED <<rootState, entries, containers, engineOk, verbose, now,
                   running, repoQueue, cur, entryQueue, result, returned, since,
                   trace>>
    /\ UNCHANGED <<pending, nested, provVars>>

(* after the inner loop: remove the repository directory when it is empty;
   the result of remove_dir is ignored *)
FinishRepo ==
    /\ pc = "entries"
    /\ entryQueue = <<>>
    /\ pc' = "repos"
    /\ \E rmdir_ok \in BOOLEAN :
          repos' = IF EntryListing(cur) = <<>> /\ rmdir_ok
                   THEN [repos EXCEPT ![cur] = "absent"]
                   ELSE repos
    /\ UNCHANGED <<rootState, entries, containers, engineOk, verbose, now,
                   running, repoQueue, cur, entryQueue, result, returned, since,
                   trace>>
    /\ UNCHANGED <<pending, nested, provVars>>

NoEvents == [ticked |-> FALSE, changed |-> FALSE]

(* lazy_cleanup returns result *)
EndPass ==
    /\ pc = "repos"
    /\ repoQueue = <<>>
    /\ pc' = "idle"
    /\ returned' = Append(returned,
          [result |-> result, ticked |-> since.ticked, changed |-> since.changed])
    /\ since' = NoEvents
    /\ UNCHANGED <<rootState, repos, entries, containers, engineOk, verbose,
                   now, running, repoQueue, cur, entryQueue, result, trace>>
    /\ UNCHANGED <<pending, nested, provVars>>

----------------------------------------------------------------------------
(* The environment between two passes *)

TickSteps == {2 * 1000, GraceSecs * 1000}

Between == pc = "idle" /\ 0 < Len(returned) /\ Len(returned) < MaxPasses

Tick ==
    /\ Between
    /\ ~since.ticked
    /\ \E d \in TickSteps : now' = now + d
    /\ since' = [since EXCEPT !.ticked = TRUE]
    /\ UNCHANGED <<rootState, repos, entries, containers, engineOk, verbose,
                   pc, running, repoQueue, cur, entryQueue, result, returned,
                   trace>>
    /\ UNCHANGED <<pending, nested, provVars>>

(* a ccs container exits *)
ContainerStops ==
    /\ Between
    /\ ~since.changed
    /\ \E p \in containers : containers' = containers \ {p}
    /\ since' = [since EXCEPT !.changed = TRUE]
    /\ UNCHANGED <<rootState, repos, entries, engineOk, verbose, now, pc,
                   running, repoQueue, cur, entryQueue, result, returned, trace>>
    /\ UNCHANGED <<pending, nested, provVars>>

(* the user commits the work in a worktree and merges it *)
BecomesMerged ==
    /\ Between
    /\ ~since.changed
    /\ \E p \in Slots :
          /\ entries[p].kind = "dir"
          /\ entries[p].pointer = "ok"
          /\ has_uncommitted_changes(entries[p]) \/ has_unmerged_commits(entries[p])
          /\ entries' = [entries EXCEPT ![p].status = Exit(TRUE, <<>>),
                                        ![p].branch = Exit(TRUE, <<"feature-x", "\n">>),
                                        ![p].log = [i \in 1..Len(Bases) |-> Exit(TRUE, <<>>)]]
    /\ since' = [since EXCEPT !.changed = TRUE]
    /\ UNCHANGED <<rootState, repos, containers, engineOk, verbose, now, pc,
                   running, repoQueue, cur, entryQueue, result, returned, trace>>
    /\ UNCHANGED <<pending, nested, provVars>>

----------------------------------------------------------------------------
(* Initial states: worktrees found on disk *)

Hour == GraceSecs * 1000
Start == 4 * Hour

Commits == <<"abc1234", " ", "wip", "\n">>

(* a clean worktree of a merged branch, untouched for two hours *)
Orphan ==
    [ kind    |-> "dir",
      pointer |-> "ok",
      status  |-> Exit(TRUE, <<>>),
      branch  |-> Exit(TRUE, <<"feature-x", "\n">>),
      log     |-> <<Exit(TRUE, <<>>), Exit(FALSE, <<>>), Exit(TRUE, Commits), Exit(FALSE, <<>>)>>,
      meta    |-> "ok",
      mtime   |-> Start - 2 * Hour,
      gitRm   |-> "ok",
      rawRm   |-> "ok" ]

FileEntry == [Absent EXCEPT !.kind = "file"]

Profiles ==
    { Orphan,
      [Orphan EXCEPT !.gitRm = "nonzero"],
      [Orphan EXCEPT !.gitRm = "nonzero", !.rawRm = "fail"],
      [Orphan EXCEPT !.gitRm = "err", !.rawRm = "partial"],
      [Orphan EXCEPT !.status = Exit(TRUE, <<"??", " ", "notes.txt", "\n">>)],
      [Orphan EXCEPT !.log = <<Exit(FALSE, <<>>), Exit(TRUE, Commits), Exit(TRUE, <<>>), SpawnErr>>],
      [Orphan EXCEPT !.mtime = Start - (GraceSecs - 1) * 1000],
      [Orphan EXCEPT !.mtime = Start + 5000],
      [Orphan EXCEPT !.pointer = "none", !.status = Exit(FALSE, <<>>),
                     !.branch = Exit(FALSE, <<>>)],
      [Orphan EXCEPT !.pointer = "none", !.status = Exit(FALSE, <<>>),
                     !.branch = Exit(FALSE, <<>>), !.rawRm = "fail"],
      FileEntry }

Populated(e) == {p \in Slots : e[p].kind # "absent"}
Dirs(e) == {p \in Slots : e[p].kind = "dir"}

Init ==
    /\ rootState = "ok"
    /\ entries \in [Slots -> Profiles \cup {Absent}]
    /\ Cardinality(Populated(entries)) <= MaxCandidates
    /\ repos \in [Repos -> {"absent", "dir"}]
    /\ \A p \in Populated(entries) : repos[p[1]] = "dir"
    /\ containers \in SUBSET Dirs(entries)
    /\ engineOk = TRUE
    /\ verbose \in {"unset", "set", "notunicode"}
    /\ now = Start
    /\ pc = "idle"
    /\ running = {}
    /\ repoQueue = <<>>
    /\ cur = RepoOrder[1]
    /\ entryQueue = <<>>
    /\ result = CleanupResult
    /\ returned = <<>>
    /\ since = NoEvents
    /\ trace = <<>>
    /\ Unprovisioned

Next ==
    \/ StartPass
    \/ NextRepo
    \/ ProcessEntry
    \/ FinishRepo
    \/ EndPass
    \/ Tick
    \/ ContainerStops
    \/ BecomesMerged

Spec == Init /\ [][Next]_vars

----------------------------------------------------------------------------
(* One pass over a single candidate, its signals drawn from every outcome of
   every query *)

Subject == SlotOrder[1]

Ages == {0, (GraceSecs - 1) * 1000, GraceSecs * 1000 - 1, GraceSecs * 1000,
         GraceSecs * 1000 + 500, (GraceSecs + 1) * 1000, 2 * Hour}

Candidates ==
    { [ kind    |-> "dir",
        pointer |-> pt,
        status  |-> st,
        branch  |-> br,
        log     |-> lg,
        meta    |-> mt[1],
        mtime   |-> mt[2],
        gitRm   |-> "ok",
        rawRm   |-> "ok" ] :
      pt \in {"none", "ok"}, st \in StatusOuts, br \in BranchOuts,
      lg \in [1..Len(Bases) -> LogOuts],
      mt \in ({<<"ok", Start - a>> : a \in Ages}
                \cup {<<"ok", Start + 5000>>, <<"err", 0>>}) }

InitOne ==
    /\ rootState = "ok"
    /\ \E c \in Candidates :
          entries = [p \in Slots |-> IF p = Subject THEN c ELSE Absent]
    /\ repos = [r \in Repos |-> IF r = Subject[1] THEN "dir" ELSE "absent"]
    /\ containers \in SUBSET {Subject}
    /\ engineOk = TRUE
    /\ verbose = "unset"
    /\ now = Start
    /\ pc = "idle"
    /\ running = {}
    /\ repoQueue = <<>>
    /\ cur = RepoOrder[1]
    /\ entryQueue = <<>>
    /\ result = CleanupResult
    /\ returned = <<>>
    /\ since = NoEvents
    /\ trace = <<>>
    /\ Unprovisioned

StartOne == returned = <<>> /\ StartPass

NextOne ==
    \/ StartOne
    \/ NextRepo
    \/ ProcessEntry
    \/ FinishRepo
    \/ EndPass

SpecOne == InitOne /\ [][NextOne]_vars

----------------------------------------------------------------------------
(* Vocabulary of the properties, over the record of one processed candidate *)

Steps == {trace[i] : i \in 1..Len(trace)}

HasPointer(c) == c.pointer # "none"

(* the status query ran, succeeded and printed nothing *)
ReportedClean(c) == c.status = Exit(TRUE, <<>>)

(* the status query printed at least one modification *)
ReportedDirty(c) == c.status.spawned /\ c.status.stdout # <<>>

BranchName(c) == Trim(c.branch.stdout)

OnBaseBranch(c) ==
    c.branch.spawned /\ BranchName(c) \in {<<"main">>, <<"master">>}

OffBaseBranch(c) ==
    c.branch.spawned /\ BranchName(c) \notin {<<"main">>, <<"master">>}

Answers(c, i) == c.log[i].spawned /\ c.log[i].success

(* the first base branch whose comparison query succeeds, 0 when none does *)
FirstAnswer(c) ==
    IF \E i \in 1..Len(Bases) : Answers(c, i)
    THEN CHOOSE i \in 1..Len(Bases) :
            Answers(c, i) /\ \A j \in 1..(i - 1) : ~Answers(c, j)
    ELSE 0

FoundUnmerged(c) ==
    /\ OffBaseBranch(c)
    /\ FirstAnswer(c) # 0
    /\ c.log[FirstAnswer(c)].stdout # <<>>

FoundMerged(c) ==
    \/ OnBaseBranch(c)
    \/ /\ OffBaseBranch(c)
       /\ FirstAnswer(c) # 0
       /\ c.log[FirstAnswer(c)].stdout = <<>>

AgeKnown(e) == e.before.meta = "ok" /\ e.before.mtime <= e.at
Age(e) == e.at - e.before.mtime

Eligible(e) ==
    /\ ~e.run
    /\ HasPointer(e.before)
    /\ ReportedClean(e.before)
    /\ FoundMerged(e.before)

Returned == pc = "idle" /\ returned # <<>>

----------------------------------------------------------------------------
(* C1: a candidate is classified Remove only if it is not in the running set,
   has a .git pointer file, was reported clean by the status query, was found
   merged into a base branch, and is known to be at least 3600 seconds old. *)
C1_RemoveNeedsAllFive ==
    \A e \in Steps :
        e.decision.kind = "Remove" =>
            /\ Eligible(e)
            /\ AgeKnown(e)
            /\ Age(e) >= GraceSecs * 1000

----------------------------------------------------------------------------
(* C2: a candidate that is in the running set handed to the classifier is
   classified Keep("container is running") whatever its other signals are, and
   the pass leaves it on disk as it was. *)
C2_RunningPrecedence ==
    \A e \in Steps :
        e.run =>
            /\ e.decision = Keep("container is running")
            /\ entries[e.path] = e.before

C2_Witness ==
    /\ Returned
    /\ \E e \in Steps :
          /\ e.run
          /\ ~HasPointer(e.before)
          /\ ~AgeKnown(e)
          /\ entries[e.path].kind = "dir"

----------------------------------------------------------------------------
(* C3: a candidate outside the running set that has a pointer file and whose
   status query reports a modification is classified
   Keep("has uncommitted changes"), whatever its merge state and age, and is
   still on disk after the pass. *)
C3_DirtyIsKept ==
    \A e \in Steps :
        (~e.run /\ HasPointer(e.before) /\ ReportedDirty(e.before)) =>
            /\ e.decision = Keep("has uncommitted changes")
            /\ entries[e.path] = e.before

C3_Witness ==
    /\ Returned
    /\ \E e \in Steps :
          /\ ~e.run
          /\ ReportedDirty(e.before)
          /\ FoundMerged(e.before)
          /\ AgeKnown(e)
          /\ Age(e) = 2 * Hour
          /\ entries[e.path].kind = "dir"

----------------------------------------------------------------------------
(* C4: for a clean candidate with a pointer file, outside the running set and
   not on main or master: when the first base branch whose comparison succeeds
   shows commits only on the current branch, the decision is
   Keep("branch has unmerged commits") at every age, and the queries run are
   exactly those up to that base branch. *)
C4_FirstAnswerDecides ==
    \A e \in Steps :
        ( /\ ~e.run
          /\ HasPointer(e.before)
          /\ ReportedClean(e.before)
          /\ FoundUnmerged(e.before) ) =>
            /\ e.decision = Keep("branch has unmerged commits")
            /\ e.asked = SubSeq(Bases, 1, FirstAnswer(e.before))

C4_Witness ==
    \E e \in Steps :
        /\ ~e.run
        /\ ReportedClean(e.before)
        /\ FoundUnmerged(e.before)
        /\ FirstAnswer(e.before) = 2
        /\ e.before.log[1] = Exit(FALSE, <<>>)
        /\ e.before.log[3] = Exit(TRUE, <<>>)
        /\ e.before.log[4] = Exit(TRUE, <<>>)
        /\ AgeKnown(e)
        /\ Age(e) = 2 * Hour
        /\ e.asked = <<"main", "master">>

----------------------------------------------------------------------------
(* C5: an otherwise eligible candidate (not running, pointer file, clean,
   merged) is kept as "recently modified" at every age below 3600 seconds, so
   at 3599, and removed at every age above 3600 seconds, so at 3601. *)
C5_GraceWindow ==
    \A e \in Steps :
        (Eligible(e) /\ AgeKnown(e)) =>
            /\ Age(e) < GraceSecs * 1000 =>
                  e.decision = Keep("recently modified")
            /\ Age(e) > GraceSecs * 1000 =>
                  e.decision = Remove("no changes, no running container")

C5_Witness ==
    \E e \in Steps :
        /\ Eligible(e)
        /\ AgeKnown(e)
        /\ Age(e) = (GraceSecs + 1) * 1000
        /\ e.decision.kind = "Remove"

----------------------------------------------------------------------------
(* C6 as stated: a candidate without a pointer file is classified
   Remove("not a git worktree") whether or not it is in the running set. *)
C6_NoPointerAlwaysRemove ==
    \A e \in Steps :
        ~HasPointer(e.before) => e.decision = Remove("not a git worktree")

(* C6 amended: a candidate without a pointer file that is not in the running
   set is classified Remove("not a git worktree"), whatever its age. *)
C6_NoPointerRemoveUnlessRunning ==
    \A e \in Steps :
        (~HasPointer(e.before) /\ ~e.run) =>
            e.decision = Remove("not a git worktree")

C6_Witness ==
    \E e \in Steps :
        /\ ~HasPointer(e.before)
        /\ ~e.run
        /\ AgeKnown(e)
        /\ Age(e) = 0
        /\ e.before.status = SpawnErr
        /\ e.decision = Remove("not a git worktree")
        /\ entries[e.path].kind = "absent"

----------------------------------------------------------------------------
(* Vocabulary of the properties of a pass *)

PathsOf(steps) == [i \in 1..Len(steps) |-> steps[i].path]

(* the result of pass k: returned, or under construction *)
ResultOf(k) == IF k <= Len(returned) THEN returned[k].result ELSE result

(* pass k has just returned and nothing was changed since *)
JustReturned(k) == pc = "idle" /\ Len(returned) = k /\ ~since.changed

Contains(s, sub) ==
    \E i \in 1..(Len(s) - Len(sub) + 1) : SubSeq(s, i, i + Len(sub) - 1) = sub

(* neither strategy of remove_worktree can succeed on this entry *)
BothFail(c) == ~(c.pointer = "ok" /\ c.gitRm = "ok") /\ c.rawRm # "ok"

PassStep == NextRepo \/ ProcessEntry \/ FinishRepo \/ EndPass

----------------------------------------------------------------------------
(* C7: the removed list of every pass holds exactly the candidates the pass
   classified Remove and removed successfully, each once and in traversal
   order, and none of them is on disk when the pass returns. *)
C7_RemovedExact ==
    \A k \in 1..Len(returned) :
        LET removed == returned[k].result.removed
        IN  /\ removed = PathsOf(SelectSeq(trace, LAMBDA e :
                    e.pass = k /\ e.decision.kind = "Remove" /\ e.rm = "ok"))
            /\ \A i, j \in 1..Len(removed) : removed[i] = removed[j] => i = j
            /\ JustReturned(k) =>
                  \A p \in Range(removed) : entries[p].kind = "absent"

C7_Witness ==
    /\ JustReturned(1)
    /\ returned[1].result.removed = <<SlotOrder[1]>>
    /\ entries[SlotOrder[1]].kind = "absent"
    /\ \E e \in Steps :
          /\ e.path = SlotOrder[1]
          /\ e.before = Orphan
          /\ ~e.run
          /\ Age(e) = 2 * Hour

----------------------------------------------------------------------------
(* C8: when both removal strategies fail for a candidate classified Remove,
   the pass records exactly one error string naming the path and the reason,
   does not list the path as removed, leaves the directory on disk, still
   processes every other candidate, and can always run on to its return. *)
C8_FailedRemovalIsReported ==
    /\ \A e \in Steps :
          (e.decision.kind = "Remove" /\ BothFail(e.before)) =>
              LET res == ResultOf(e.pass)
                  hits == {i \in 1..Len(res.errors) :
                              Contains(res.errors[i], display(e.path))}
              IN  /\ Cardinality(hits) = 1
                  /\ \A i \in hits : Contains(res.errors[i], <<e.decision.reason>>)
                  /\ e.path \notin Range(res.removed)
                  /\ entries[e.path].kind = "dir"
    /\ \A k \in 1..Len(returned) :
          JustReturned(k) =>
              \A p \in Slots :
                  (entries[p].kind = "dir" /\ repos[p[1]] = "dir") =>
                      \E e \in Steps : e.pass = k /\ e.path = p
    /\ pc # "idle" => ENABLED PassStep

C8_Witness ==
    /\ JustReturned(1)
    /\ \E i, j \in 1..Len(trace) :
          /\ i < j
          /\ trace[i].decision.kind = "Remove"
          /\ BothFail(trace[i].before)
          /\ trace[j].rm = "ok"
          /\ Len(returned[1].result.errors) = 1
          /\ returned[1].result.removed = <<trace[j].path>>

----------------------------------------------------------------------------
(* C9: a candidate classified Keep is left exactly as it was, on disk and in
   its VCS state, and so is its repository directory; the kept list holds
   only kept candidates and is empty whenever verbose mode is off. *)
C9_KeepMutatesNothing ==
    /\ \A e \in Steps :
          ( /\ e.decision.kind = "Keep"
            /\ Len(returned) + 1 = e.pass \/ JustReturned(e.pass) ) =>
              /\ entries[e.path] = e.before
              /\ repos[e.path[1]] = "dir"
    /\ \A k \in 1..(IF pc = "idle" THEN Len(returned) ELSE Pass) :
          /\ verbose # "set" => ResultOf(k).kept = <<>>
          /\ \A p \in Range(ResultOf(k).kept) :
                \E e \in Steps :
                    e.pass = k /\ e.path = p /\ e.decision.kind = "Keep"

C9_Witness ==
    /\ JustReturned(1)
    /\ verbose = "set"
    /\ \E e \in Steps :
          /\ e.decision = Keep("has uncommitted changes")
          /\ returned[1].result.kept = <<e.path>>
          /\ entries[e.path] = e.before
          /\ e.before.kind = "dir"

----------------------------------------------------------------------------
(* C10 as stated: a pass that follows another with no change to the
   filesystem, the VCS state or the running set in between removes nothing. *)
C10_SecondRunRemovesNothing ==
    \A k \in 2..Len(returned) :
        ~returned[k].changed => returned[k].result.removed = <<>>

(* C10 amended: such a pass removes only worktrees that the pass before kept as
   "recently modified" and that reached the age of 3600 seconds in between; it
   removes nothing when the clock did not move between the two passes. *)
C10_SecondRunRemovesOnlyAged ==
    \A k \in 2..Len(returned) :
        ~returned[k].changed =>
            /\ \A p \in Range(returned[k].result.removed) :
                  /\ \E e \in Steps :
                        /\ e.pass = k - 1
                        /\ e.path = p
                        /\ e.decision = Keep("recently modified")
                  /\ \E e \in Steps :
                        /\ e.pass = k
                        /\ e.path = p
                        /\ AgeKnown(e)
                        /\ Age(e) >= GraceSecs * 1000
            /\ ~returned[k].ticked => returned[k].result.removed = <<>>

C10_Witness ==
    /\ Len(returned) = 2
    /\ ~returned[2].changed
    /\ returned[2].ticked
    /\ returned[1].result.removed # <<>>
    /\ returned[1].result.errors # <<>>
    /\ returned[2].result.removed = <<>>

----------------------------------------------------------------------------
(* One pass over a data root that may be missing or unreadable, with
   repository directories that may be files or unreadable *)

Dirty == [Orphan EXCEPT !.status = Exit(TRUE, <<"??", " ", "notes.txt", "\n">>)]

InitRoot ==
    /\ rootState \in {"ok", "missing", "unreadable", "nodatadir"}
    /\ repos \in [Repos -> {"absent", "dir", "file", "unreadable"}]
    /\ entries \in [Slots -> {Absent, Orphan, Dirty, FileEntry}]
    /\ \A p \in Populated(entries) : repos[p[1]] \in {"dir", "unreadable"}
    /\ rootState = "missing" => \A r \in Repos : repos[r] = "absent"
    /\ containers = {}
    /\ engineOk = TRUE
    /\ verbose \in {"unset", "set"}
    /\ now = Start
    /\ pc = "idle"
    /\ running = {}
    /\ repoQueue = <<>>
    /\ cur = RepoOrder[1]
    /\ entryQueue = <<>>
    /\ result = CleanupResult
    /\ returned = <<>>
    /\ since = NoEvents
    /\ trace = <<>>
    /\ Unprovisioned

SpecRoot == InitRoot /\ [][NextOne]_vars

----------------------------------------------------------------------------
(* C11: when the data root cannot be determined, is missing or cannot be
   read, the pass returns an empty result and changes nothing on disk; a
   repository directory that cannot be read is skipped, with its content left
   as it is, and the directories after it are still processed. *)
C11_PassNeverFails ==
    /\ [](rootState # "ok" =>
            /\ trace = <<>>
            /\ result = CleanupResult
            /\ \A k \in 1..Len(returned) : returned[k].result = CleanupResult)
    /\ [][rootState # "ok" => UNCHANGED <<repos, entries>>]_vars
    /\ [](\A e \in Steps : repos[e.path[1]] # "unreadable")
    /\ [][\A p \in Slots :
            repos[p[1]] = "unreadable" =>
                entries'[p] = entries[p] /\ repos'[p[1]] = "unreadable"]_vars
    /\ [](JustReturned(1) /\ rootState = "ok" =>
            \A p \in Slots :
                (entries[p].kind = "dir" /\ repos[p[1]] = "dir") =>
                    \E e \in Steps : e.path = p)

C11_Witness ==
    /\ JustReturned(1)
    /\ rootState = "ok"
    /\ repos[RepoOrder[1]] = "unreadable"
    /\ entries[SlotOrder[1]] = Orphan
    /\ entries[SlotOrder[3]].kind = "absent"
    /\ returned[1].result.removed = <<SlotOrder[3]>>

----------------------------------------------------------------------------
(* Two passes at once.  The inner loop body of lazy_cleanup is two steps here,
   the classification and the match on its decision, and another process
   running the same pass may remove a candidate in between. *)

(* should_cleanup_worktree for the head of the loop *)
ClassifyEntry ==
    /\ pc = "entries"
    /\ entryQueue # <<>>
    /\ LET worktree_path == Head(entryQueue)
           c == entries[worktree_path]
       IN  /\ entryQueue' = Tail(entryQueue)
           /\ IF c.kind # "dir"
              THEN UNCHANGED <<pending, pc>>
              ELSE /\ pending' =
                        [path |-> worktree_path,
                         decision |-> should_cleanup_worktree(worktree_path, c,
                                                              running, now),
                         seen |-> c,
                         asked |-> log_queries(worktree_path, c, running),
                         run |-> worktree_path \in running]
                   /\ pc' = "decided"
    /\ UNCHANGED <<rootState, repos, entries, containers, engineOk, verbose, now,
                   running, repoQueue, cur, result, returned, since, trace>>
    /\ UNCHANGED <<nested, provVars>>

(* the match on the decision: remove_worktree works on what is on disk now *)
ActEntry ==
    /\ pc = "decided"
    /\ LET worktree_path == pending.path
           d == pending.decision
           c == entries[worktree_path]
           r == remove_worktree(c, now)
       IN  /\ IF d.kind = "Remove"
              THEN /\ entries' = [entries EXCEPT ![worktree_path] = r.after]
                   /\ nested' = IF r.ok
                                THEN [nested EXCEPT ![worktree_path] = Absent]
                                ELSE nested
                   /\ result' =
                        IF r.ok
                        THEN [result EXCEPT !.removed = Append(@, worktree_path)]
                        ELSE [result EXCEPT !.errors =
                                Append(@, format_error(worktree_path, r.err, d.reason))]
                   /\ trace' = Append(trace,
                        [pass |-> Pass, path |-> worktree_path, decision |-> d,
                         asked |-> pending.asked,
                         rm |-> IF r.ok THEN "ok" ELSE "err", tried |-> r.tried,
                         before |-> pending.seen, at |-> now,
                         run |-> pending.run, gone |-> c.kind = "absent"])
              ELSE /\ result' =
                        IF verbose_mode
                        THEN [result EXCEPT !.kept = Append(@, worktree_path),
                                            !.errors = Append(@, format_kept(d.reason))]
                        ELSE result
                   /\ trace' = Append(trace,
                        [pass |-> Pass, path |-> worktree_path, decision |-> d,
                         asked |-> pending.asked, rm |-> "none", tried |-> <<>>,
                         before |-> pending.seen, at |-> now,
                         run |-> pending.run, gone |-> c.kind = "absent"])
                   /\ UNCHANGED <<entries, nested>>
    /\ pending' = NoPending
    /\ pc' = "entries"
    /\ UNCHANGED <<rootState, repos, containers, engineOk, verbose, now,
                   running, repoQueue, cur, entryQueue, returned, since>>
    /\ UNCHANGED provVars

(* the Remove arm of the other pass: it classifies a candidate Remove and its
   removal succeeds *)
RivalRemoves ==
    /\ pc # "idle"
    /\ \E p \in Slots :
          /\ repos[p[1]] = "dir"
          /\ entries[p].kind = "dir"
          /\ should_cleanup_worktree(p, entries[p],
                                     get_running_container_worktrees, now).kind = "Remove"
          /\ remove_worktree(entries[p], now).ok
          /\ entries' = [entries EXCEPT ![p] = Absent]
          /\ nested' = [nested EXCEPT ![p] = Absent]
    /\ UNCHANGED <<rootState, repos, containers, engineOk, verbose, now, pc,
                   running, repoQueue, cur, entryQueue, result, returned, since,
                   trace>>
    /\ UNCHANGED <<pending, provVars>>

NoPointer ==
    [Orphan EXCEPT !.pointer = "none", !.status = Exit(FALSE, <<>>),
                   !.branch = Exit(FALSE, <<>>)]

InitRace ==
    /\ rootState = "ok"
    /\ entries \in [Slots -> {Absent, Orphan, Dirty, NoPointer}]
    /\ repos = [r \in Repos |->
                  IF \E p \in Populated(entries) : p[1] = r THEN "dir" ELSE "absent"]
    /\ containers = {}
    /\ engineOk = TRUE
    /\ verbose \in {"unset", "set"}
    /\ now = Start
    /\ pc = "idle"
    /\ running = {}
    /\ repoQueue = <<>>
    /\ cur = RepoOrder[1]
    /\ entryQueue = <<>>
    /\ result = CleanupResult
    /\ returned = <<>>
    /\ since = NoEvents
    /\ trace = <<>>
    /\ Unprovisioned

NextRace ==
    \/ StartOne
    \/ NextRepo
    \/ ClassifyEntry
    \/ ActEntry
    \/ FinishRepo
    \/ EndPass
    \/ RivalRemoves

SpecRace == InitRace /\ [][NextRace]_vars

----------------------------------------------------------------------------
(* C12: a pass that decided Remove for a candidate and finds it already
   deleted by the other pass when it comes to remove it adds no error string
   for that candidate to its result. *)
C12_AlreadyRemovedIsNoError ==
    \A e \in Steps :
        (e.decision.kind = "Remove" /\ e.gone) =>
            \A i \in 1..Len(ResultOf(e.pass).errors) :
                ~Contains(ResultOf(e.pass).errors[i], display(e.path))

----------------------------------------------------------------------------
(* Paths: sequences of components, "/" first when absolute.  Strings that are
   edited before they become paths are sequences of tokens with "/" between
   the components.  Option<T>: <<>> is None, <<x>> is Some(x). *)

MaxCalls == 2

is_absolute(path) == path # <<>> /\ path[1] = "/"

(* Path::parent and Path::file_name *)
parent(path) ==
    IF Len(path) <= 1 THEN <<>> ELSE <<SubSeq(path, 1, Len(path) - 1)>>

file_name(path) ==
    IF path = <<>> \/ path[Len(path)] \in {"/", ".."}
    THEN <<>> ELSE <<path[Len(path)]>>

(* Path::ends_with, for a single component *)
ends_with(path, name) == path # <<>> /\ path[Len(path)] = name

(* PathBuf::from: the components of a string *)
RECURSIVE components(_)
components(str) ==
    IF str = <<>> THEN <<>>
    ELSE IF Head(str) \in {"/", "."} THEN components(Tail(str))
    ELSE <<Head(str)>> \o components(Tail(str))

PathBuf_from(str) ==
    IF str # <<>> /\ Head(str) = "/"
    THEN <<"/">> \o components(str) ELSE components(str)

(* Path::to_string_lossy *)
RECURSIVE to_string_lossy(_)
to_string_lossy(path) ==
    IF path = <<>> THEN <<>>
    ELSE IF Len(path) = 1 \/ Head(path) = "/"
    THEN <<Head(path)>> \o to_string_lossy(Tail(path))
    ELSE <<Head(path), "/">> \o to_string_lossy(Tail(path))

(* str::replace *)
RECURSIVE replace(_, _, _)
replace(str, from, to) ==
    IF str = <<>> THEN <<>>
    ELSE (IF Head(str) = from THEN to ELSE <<Head(str)>>)
            \o replace(Tail(str), from, to)

(* Path::join *)
join(base, path) == IF is_absolute(path) THEN path ELSE base \o path

(* Path::canonicalize of a path that exists and holds no symbolic link *)
canonicalize(path) == SelectSeq(path, LAMBDA c : c \notin {".", ""})

home_dir == <<"/", "home", "user">>

(* dirs::data_dir() *)
data_dir == home_dir \o <<".local", "share">>

(* the data root of lazy_cleanup *)
DataRoot == data_dir \o <<"ccs">>

(* WorktreeConfig::default().base_path *)
base_path == <<"{data_dir}", "/", "ccs", "/", "{repo_name}">>

(* Config::default(), its worktree settings *)
Config_default == [worktree |-> [base_path |-> base_path]]

resolve_worktree_path(self, repo_name, repo_parent) ==
    LET named == replace(self.worktree.base_path, "{repo_name}", <<repo_name>>)
        path_str == IF \E i \in 1..Len(named) : named[i] = "{data_dir}"
                    THEN replace(named, "{data_dir}", to_string_lossy(data_dir))
                    ELSE named
        path == PathBuf_from(path_str)
    IN  IF is_absolute(path)
        THEN IF Len(path_str) >= 2 /\ SubSeq(path_str, 1, 2) = <<"~", "/">>
             THEN join(home_dir, PathBuf_from(SubSeq(path_str, 3, Len(path_str))))
             ELSE path
        ELSE join(repo_parent, path)

Depth(path) == Len(path) - Len(DataRoot)

UnderDataRoot(path) ==
    Depth(path) >= 2 /\ SubSeq(path, 1, Len(DataRoot)) = DataRoot

(* the second-level directory of the data root a path lies in *)
SlotOf(path) == <<path[Len(DataRoot) + 1], path[Len(DataRoot) + 2]>>

----------------------------------------------------------------------------
(* Repositories *)

(* the canonical repository, a working copy the user added by hand, and a
   bare repository *)
RepoDir == home_dir \o <<"demo">>
HotfixDir == home_dir \o <<"hotfix">>
BareDir == <<"/", "srv", "bare.git">>

NestedPath == DataRoot \o <<"demo", "wip", "x">>

NoRepo ==
    [found |-> FALSE, path |-> <<>>, workdir |-> <<>>, is_worktree |-> FALSE]

(* the administrative directory git keeps for the worktree at a path *)
AdminDir(repo, path) ==
    home_dir \o <<repo, ".git", "worktrees", path[Len(path)]>>

(* Repository::discover: path() is the git directory, workdir() the working
   directory, is_worktree() whether the git directory belongs to a worktree *)
discover(path) ==
    IF path = RepoDir
    THEN [found |-> TRUE, path |-> RepoDir \o <<".git">>,
          workdir |-> <<RepoDir>>, is_worktree |-> FALSE]
    ELSE IF path = HotfixDir
    THEN [found |-> TRUE, path |-> AdminDir("demo", HotfixDir),
          workdir |-> <<HotfixDir>>, is_worktree |-> TRUE]
    ELSE IF path = BareDir
    THEN [found |-> TRUE, path |-> BareDir, workdir |-> <<>>,
          is_worktree |-> FALSE]
    ELSE IF UnderDataRoot(path) /\ SlotOf(path) \in Slots
    THEN LET slot == SlotOf(path)
             c == IF Depth(path) = 2 THEN entries[slot] ELSE nested[slot]
         IN  IF Depth(path) <= 3 /\ c.kind = "dir" /\ c.pointer = "ok"
             THEN [found |-> TRUE, path |-> AdminDir(slot[1], path),
                   workdir |-> <<path>>, is_worktree |-> TRUE]
             ELSE NoRepo
    ELSE NoRepo

(* variant: the common directory is looked for under the name ".git" *)
find_common_git_dir_GitName(repo) ==
    LET worktrees_parent == parent(repo.path)
    IN  IF worktrees_parent # <<>> /\ file_name(worktrees_parent[1]) = <<".git">>
        THEN parent(worktrees_parent[1])
        ELSE <<>>

find_common_git_dir(repo) ==
    LET worktrees_parent == parent(repo.path)
    IN  IF worktrees_parent # <<>> /\ file_name(worktrees_parent[1]) = <<"worktrees">>
        THEN parent(worktrees_parent[1])
        ELSE <<>>

extract_repo_name(repo) ==
    LET common == find_common_git_dir(repo)
        main_git_dir == IF repo.is_worktree /\ common # <<>>
                        THEN common[1] ELSE repo.path
        repo_root == IF ends_with(main_git_dir, ".git")
                     THEN parent(main_git_dir) ELSE <<main_git_dir>>
    IN  IF repo_root = <<>> THEN <<>> ELSE file_name(repo_root[1])

NoCtx ==
    [workspace_path |-> <<>>, shared_git_dir |-> <<>>, repo_name |-> "",
     is_worktree |-> FALSE]

(* GitContext::detect *)
detect(path) ==
    LET repo == discover(path)
        repo_name == extract_repo_name(repo)
    IN  IF ~repo.found \/ repo.workdir = <<>>
        THEN [outcome |-> "NotARepo", ctx |-> NoCtx]
        ELSE IF repo_name = <<>>
        THEN [outcome |-> "NoRepoName", ctx |-> NoCtx]
        ELSE [outcome |-> "Ok",
              ctx |-> [workspace_path |-> repo.workdir[1],
                       shared_git_dir |-> IF repo.is_worktree
                                          THEN find_common_git_dir(repo) ELSE <<>>,
                       repo_name |-> repo_name[1],
                       is_worktree |-> repo.is_worktree]]

(* variant: the shared directory comes first *)
docker_mounts_SharedFirst(ctx) ==
    (IF ctx.shared_git_dir # <<>>
     THEN << <<ctx.shared_git_dir[1], "/workspace/.git-main">> >> ELSE <<>>)
       \o << <<ctx.workspace_path, "/workspace">> >>

docker_mounts(ctx) ==
    << <<ctx.workspace_path, "/workspace">> >>
       \o (IF ctx.shared_git_dir # <<>>
           THEN << <<ctx.shared_git_dir[1], "/workspace/.git-main">> >> ELSE <<>>)

----------------------------------------------------------------------------
(* create_worktree up to the point where it runs git worktree add *)

BranchNames == { <<"feature-x">>, <<"wip", "/", "x">> }

(* variant: a worktree may be created from a worktree *)
is_worktree_Never(repo) == FALSE

(* Repository::is_worktree *)
is_worktree(repo) == repo.is_worktree

(* variant: only a worktree counts as an existing target *)
exists_WorktreesOnly(path) ==
    /\ UnderDataRoot(path)
    /\ IF Depth(path) = 2
       THEN entries[SlotOf(path)].pointer = "ok"
       ELSE nested[SlotOf(path)].pointer = "ok"

(* Path::exists of a path under the data root *)
exists(path) ==
    /\ UnderDataRoot(path)
    /\ repos[path[Len(DataRoot) + 1]] \in {"dir", "unreadable"}
    /\ IF Depth(path) = 2
       THEN entries[SlotOf(path)].kind # "absent"
       ELSE entries[SlotOf(path)].kind = "dir" /\ nested[SlotOf(path)].kind # "absent"

(* variant: an existing branch is reused when a new one is asked for *)
reference_Reuse(branch_name, create_branch) ==
    IF create_branch
    THEN IF head # "ok"
         THEN [err |-> "Git2", create |-> FALSE]
         ELSE [err |-> "", create |-> branch_name \notin branches]
    ELSE IF branch_name \notin branches
         THEN [err |-> "BranchNotFound", create |-> FALSE]
         ELSE [err |-> "", create |-> FALSE]

(* the reference for the worktree: the error it ends with, or whether the
   branch is to be created *)
reference(branch_name, create_branch) ==
    IF create_branch
    THEN IF head # "ok"
         THEN [err |-> "Git2", create |-> FALSE]
         ELSE IF branch_name \in branches
         THEN [err |-> "BranchExists", create |-> FALSE]
         ELSE [err |-> "", create |-> TRUE]
    ELSE IF branch_name \notin branches
         THEN [err |-> "BranchNotFound", create |-> FALSE]
         ELSE [err |-> "", create |-> FALSE]

(* std::fs::create_dir_all of the worktree base *)
create_dir_all_ok(repo_name) ==
    /\ rootState \in {"ok", "missing"}
    /\ repo_name \in Repos
    /\ repos[repo_name] \in {"absent", "dir", "unreadable"}

(* outcome "add": the call goes on to git worktree add.  base: the worktree
   base was created if missing.  branch: the branch was created. *)
create_worktree(repo_path, branch_name, create_branch) ==
    LET repo == discover(repo_path)
        repo_name == extract_repo_name(repo)
        repo_parent == parent(repo.workdir[1])
        worktree_base == resolve_worktree_path(Config_default, repo_name[1],
                                               repo_parent[1])
        worktree_path == join(worktree_base, PathBuf_from(branch_name))
        ref == reference(branch_name, create_branch)
        early(o) == [outcome |-> o, base |-> FALSE, branch |-> FALSE,
                     path |-> <<>>, repo_name |-> "", git_dir |-> <<>>]
        late(o, b) == [outcome |-> o, base |-> TRUE, branch |-> b,
                       path |-> worktree_path, repo_name |-> repo_name[1],
                       git_dir |-> repo.path]
    IN  IF ~repo.found THEN early("NotARepo")
        ELSE IF is_worktree(repo) THEN early("CannotCreateFromWorktree")
        ELSE IF repo_name = <<>> THEN early("NoRepoName")
        ELSE IF repo.workdir = <<>> THEN early("NotARepo")
        ELSE IF repo_parent = <<>> THEN early("NoRepoName")
        ELSE IF ~create_dir_all_ok(repo_name[1]) THEN early("Io")
        ELSE IF exists(worktree_path) THEN late("WorktreeExists", FALSE)
        ELSE IF ref.err # "" THEN late(ref.err, FALSE)
        ELSE late("add", ref.create)

----------------------------------------------------------------------------
(* Provisioning, one action per step that another process can observe *)

CallPaths == {RepoDir, HotfixDir, BareDir, DataRoot \o SlotOrder[1], NestedPath}

(* a directory git worktree add has just made, before its .git file *)
Fresh(t) ==
    [ kind    |-> "dir",
      pointer |-> "none",
      status  |-> Exit(FALSE, <<>>),
      branch  |-> Exit(FALSE, <<>>),
      log     |-> [i \in 1..Len(Bases) |-> Exit(FALSE, <<>>)],
      meta    |-> "ok",
      mtime   |-> t,
      gitRm   |-> "err",
      rawRm   |-> "ok" ]

(* the worktree git worktree add leaves: a clean checkout of the branch *)
Created(branch_name, t) ==
    [Orphan EXCEPT !.branch = Exit(TRUE, branch_name \o <<"\n">>), !.mtime = t]

(* what the call found when it was made *)
Found(repo_path, r, branch_name) ==
    [ aux      |-> discover(repo_path).found /\ discover(repo_path).is_worktree,
      resolved |-> r.path # <<>>,
      exists   |-> /\ r.path # <<>>
                   /\ IF Depth(r.path) = 2
                      THEN entries[SlotOf(r.path)].kind # "absent"
                      ELSE nested[SlotOf(r.path)].kind # "absent",
      branch   |-> branch_name \in branches,
      head     |-> head ]

Call(op, repo_path, branch_name, create_branch, outcome, ctx, pre) ==
    [op |-> op, repo_path |-> repo_path, branch_name |-> branch_name,
     create_branch |-> create_branch, outcome |-> outcome, ctx |-> ctx,
     mounts |-> <<>>, pre |-> pre]

(* git.rs 107-164 *)
CreateCall ==
    /\ prov.pc = "none"
    /\ Len(calls) < MaxCalls
    /\ \E repo_path \in CallPaths \ {NestedPath}, branch_name \in BranchNames,
          create_branch \in BOOLEAN :
          LET r == create_worktree(repo_path, branch_name, create_branch)
              pre == Found(repo_path, r, branch_name)
          IN  /\ rootState' = IF r.base THEN "ok" ELSE rootState
              /\ repos' = IF r.base /\ repos[r.repo_name] = "absent"
                          THEN [repos EXCEPT ![r.repo_name] = "dir"] ELSE repos
              /\ branches' = IF r.branch THEN branches \cup {branch_name}
                             ELSE branches
              /\ IF r.outcome = "add"
                 THEN /\ prov' = [pc |-> "add", repo_path |-> repo_path,
                                  branch_name |-> branch_name,
                                  create_branch |-> create_branch,
                                  path |-> r.path, repo_name |-> r.repo_name,
                                  git_dir |-> r.git_dir, pre |-> <<pre>>]
                      /\ UNCHANGED calls
                 ELSE /\ calls' = Append(calls,
                            Call("create_worktree", repo_path, branch_name,
                                 create_branch, r.outcome, NoCtx, pre))
                      /\ UNCHANGED prov
    /\ UNCHANGED <<entries, containers, engineOk, verbose, now, pc, running,
                   repoQueue, cur, entryQueue, result, returned, since, trace,
                   pending, nested, head>>

Returns(outcome, ctx) ==
    /\ calls' = Append(calls,
          Call("create_worktree", prov.repo_path, prov.branch_name,
               prov.create_branch, outcome, ctx, prov.pre[1]))
    /\ prov' = NoCall

(* git worktree add cannot be started or exits non-zero (git.rs 174-180) *)
GitAddFails ==
    /\ prov.pc = "add"
    /\ \E outcome \in {"Io", "Git2"} : Returns(outcome, NoCtx)
    /\ UNCHANGED <<rootState, repos, entries, containers, engineOk, verbose,
                   now, pc, running, repoQueue, cur, entryQueue, result,
                   returned, since, trace, pending, nested, branches, head>>

(* git worktree add makes the directory of the worktree and the directories
   leading to it *)
GitAddMkdir ==
    /\ prov.pc = "add"
    /\ LET slot == SlotOf(prov.path)
       IN  /\ entries[slot].kind # "file"
           /\ repos' = [repos EXCEPT ![slot[1]] = "dir"]
           /\ IF Depth(prov.path) = 2
              THEN /\ entries' = [entries EXCEPT ![slot] = Fresh(now)]
                   /\ UNCHANGED nested
              ELSE /\ entries' = [entries EXCEPT ![slot] =
                                    IF @.kind = "dir"
                                    THEN [@ EXCEPT !.mtime = now, !.meta = "ok"]
                                    ELSE Fresh(now)]
                   /\ nested' = [nested EXCEPT ![slot] = Fresh(now)]
    /\ prov' = [prov EXCEPT !.pc = "mkdir"]
    /\ UNCHANGED <<rootState, containers, engineOk, verbose, now, pc, running,
                   repoQueue, cur, entryQueue, result, returned, since, trace,
                   pending, branches, head, calls>>

(* git worktree add writes the .git file and checks the branch out, and
   create_worktree returns the context (git.rs 182-191); when the directory
   is gone git exits non-zero *)
GitAddPointer ==
    /\ prov.pc = "mkdir"
    /\ LET slot == SlotOf(prov.path)
           made == Created(prov.branch_name, now)
           here == IF Depth(prov.path) = 2 THEN entries[slot] ELSE nested[slot]
       IN  IF here.kind = "dir" /\ entries[slot].kind = "dir"
           THEN /\ IF Depth(prov.path) = 2
                   THEN /\ entries' = [entries EXCEPT ![slot] = made]
                        /\ UNCHANGED nested
                   ELSE /\ nested' = [nested EXCEPT ![slot] = made]
                        /\ UNCHANGED entries
                /\ Returns("Ok",
                      [workspace_path |-> canonicalize(prov.path),
                       shared_git_dir |-> <<prov.git_dir>>,
                       repo_name |-> prov.repo_name,
                       is_worktree |-> TRUE])
           ELSE /\ Returns("Git2", NoCtx)
                /\ UNCHANGED <<entries, nested>>
    /\ UNCHANGED <<rootState, repos, containers, engineOk, verbose, now, pc,
                   running, repoQueue, cur, entryQueue, result, returned, since,
                   trace, pending, branches, head>>

(* GitContext::detect, called on its own *)
Detect ==
    /\ prov.pc = "none"
    /\ Len(calls) < MaxCalls
    /\ \E path \in CallPaths :
          LET r == detect(path)
          IN  calls' = Append(calls,
                 Call("detect", path, <<>>, FALSE, r.outcome, r.ctx,
                      [aux |-> discover(path).found /\ discover(path).is_worktree,
                       resolved |-> FALSE, exists |-> FALSE, branch |-> FALSE,
                       head |-> head]))
    /\ UNCHANGED <<rootState, repos, entries, containers, engineOk, verbose,
                   now, pc, running, repoQueue, cur, entryQueue, result,
                   returned, since, trace, pending, nested, branches, head, prov>>

(* the container is set up from the context the last call returned *)
DockerMounts ==
    /\ calls # <<>>
    /\ calls[Len(calls)].outcome = "Ok"
    /\ calls[Len(calls)].mounts = <<>>
    /\ calls' = [calls EXCEPT ![Len(calls)].mounts =
                    docker_mounts(calls[Len(calls)].ctx)]
    /\ UNCHANGED <<rootState, repos, entries, containers, engineOk, verbose,
                   now, pc, running, repoQueue, cur, entryQueue, result,
                   returned, since, trace, pending, nested, branches, head, prov>>

InitProv ==
    /\ rootState = "ok"
    /\ entries \in [Slots -> {Absent, Orphan, NoPointer}]
    /\ Populated(entries) \subseteq {SlotOrder[1]}
    /\ repos \in [Repos -> {"absent", "dir"}]
    /\ repos[RepoOrder[2]] = "absent"
    /\ \A p \in Populated(entries) : repos[p[1]] = "dir"
    /\ containers = {}
    /\ engineOk = TRUE
    /\ verbose = "unset"
    /\ now = Start
    /\ pc = "idle"
    /\ running = {}
    /\ repoQueue = <<>>
    /\ cur = RepoOrder[1]
    /\ entryQueue = <<>>
    /\ result = CleanupResult
    /\ returned = <<>>
    /\ since = NoEvents
    /\ trace = <<>>
    /\ pending = NoPending
    /\ nested = [p \in Slots |-> Absent]
    /\ branches \in SUBSET BranchNames
    /\ \A p \in Populated(entries) :
          HasPointer(entries[p]) => BranchName(entries[p]) \in branches
    /\ head \in {"ok", "unborn"}
    /\ prov = NoCall
    /\ calls = <<>>

NextProv ==
    \/ CreateCall
    \/ GitAddFails
    \/ GitAddMkdir
    \/ GitAddPointer
    \/ Detect
    \/ DockerMounts

SpecProv == InitProv /\ [][NextProv]_vars

(* one call of create_worktree while one pass runs *)
CreateOne == calls = <<>> /\ CreateCall

NextMid ==
    \/ CreateOne
    \/ GitAddFails
    \/ GitAddMkdir
    \/ GitAddPointer
    \/ StartOne
    \/ NextRepo
    \/ ProcessEntry
    \/ FinishRepo
    \/ EndPass

SpecMid == InitProv /\ [][NextMid]_vars

----------------------------------------------------------------------------
(* Vocabulary of the properties of provisioning *)

Calls == {calls[k] : k \in 1..Len(calls)}

(* a call has just returned with this outcome *)
ReturnsWith(outcome) ==
    /\ Len(calls') = Len(calls) + 1
    /\ calls'[Len(calls')].op = "create_worktree"
    /\ calls'[Len(calls')].outcome = outcome

(* create_worktree went past its checks of the origin and of the target *)
ChecksPassed(c) ==
    c.op = "create_worktree" /\ c.pre.resolved /\ ~c.pre.exists

----------------------------------------------------------------------------
(* C13: while create_worktree and a pass work on the same path, a directory
   made or modified less than 3600 seconds ago that is not in the running set
   is kept by the pass, and the directory git worktree add has made is still
   there when its .git file is about to be written. *)
C13_GraceProtectsCreation ==
    /\ \A e \in Steps :
          (~e.run /\ AgeKnown(e) /\ Age(e) < GraceSecs * 1000) =>
              e.decision.kind = "Keep"
    /\ prov.pc = "mkdir" => entries[SlotOf(prov.path)].kind = "dir"

----------------------------------------------------------------------------
(* C14: create_worktree called from a worktree fails with
   CannotCreateFromWorktree, and the step that fails so leaves the data root,
   the repository directories, the worktrees and the branches as they were. *)
C14_FromWorktreeFailsFirst ==
    /\ [](\A c \in Calls :
            (c.op = "create_worktree" /\ c.pre.aux) =>
                c.outcome = "CannotCreateFromWorktree")
    /\ [][ReturnsWith("CannotCreateFromWorktree") =>
            UNCHANGED <<rootState, repos, entries, nested, branches, head>>]_vars

C14_Witness ==
    \E c \in Calls :
        /\ c.outcome = "CannotCreateFromWorktree"
        /\ c.repo_path = HotfixDir
        /\ c.create_branch
        /\ c.branch_name \notin branches
        /\ repos[RepoOrder[1]] = "absent"

----------------------------------------------------------------------------
(* C15: create_worktree called when its target exists fails with
   WorktreeExists whether or not a branch is to be created, and the step that
   fails so changes nothing on disk and creates no branch. *)
C15_ExistingTargetIsRefused ==
    /\ [](\A c \in Calls :
            (c.op = "create_worktree" /\ c.pre.resolved /\ c.pre.exists) =>
                c.outcome = "WorktreeExists")
    /\ [][ReturnsWith("WorktreeExists") =>
            UNCHANGED <<rootState, repos, entries, nested, branches, head>>]_vars

C15_Witness ==
    \E c, d \in Calls :
        /\ c.outcome = "WorktreeExists"
        /\ d.outcome = "WorktreeExists"
        /\ c.create_branch
        /\ ~d.create_branch
        /\ ~c.pre.branch
        /\ c.branch_name = <<"feature-x">>
        /\ branches = {}
        /\ entries[SlotOrder[1]] = NoPointer

----------------------------------------------------------------------------
(* C16 as stated: past the two checks, a call that is to create the branch
   fails with BranchExists when the branch exists and creates it otherwise; a
   call that is to use a branch fails with BranchNotFound when there is none;
   a call succeeds only if the branch was absent, resp. present. *)
C16_BranchResolution ==
    \A c \in Calls :
        ChecksPassed(c) =>
            /\ (c.create_branch /\ c.pre.branch) => c.outcome = "BranchExists"
            /\ (c.create_branch /\ ~c.pre.branch) =>
                  /\ c.outcome \notin {"BranchExists", "BranchNotFound"}
                  /\ c.branch_name \in branches
            /\ (~c.create_branch /\ ~c.pre.branch) => c.outcome = "BranchNotFound"
            /\ c.outcome = "Ok" => (c.create_branch <=> ~c.pre.branch)

(* C16 amended: the same when the repository has a head commit; when it has
   none, a call that is to create the branch fails with the error of the
   version control library and creates no branch, whether the branch exists
   or not. *)
C16_BranchResolutionWithHead ==
    \A c \in Calls :
        ChecksPassed(c) =>
            /\ (c.create_branch /\ c.pre.head = "ok" /\ c.pre.branch) =>
                  c.outcome = "BranchExists"
            /\ (c.create_branch /\ c.pre.head = "ok" /\ ~c.pre.branch) =>
                  /\ c.outcome \notin {"BranchExists", "BranchNotFound"}
                  /\ c.branch_name \in branches
            /\ (c.create_branch /\ c.pre.head # "ok") =>
                  /\ c.outcome = "Git2"
                  /\ c.branch_name \in branches <=> c.pre.branch
            /\ (~c.create_branch /\ ~c.pre.branch) => c.outcome = "BranchNotFound"
            /\ c.outcome = "Ok" => (c.create_branch <=> ~c.pre.branch)

C16_Witness ==
    \E c, d \in Calls :
        /\ ChecksPassed(c)
        /\ c.create_branch
        /\ c.pre.head = "ok"
        /\ c.pre.branch
        /\ c.outcome = "BranchExists"
        /\ ChecksPassed(d)
        /\ d.create_branch
        /\ ~d.pre.branch
        /\ d.outcome = "Ok"
        /\ d.branch_name \in branches

----------------------------------------------------------------------------
(* C17: every worktree create_worktree made lies exactly two levels under
   the data root, so no second-level directory holds a worktree below it. *)
C17_TwoLevelLayout ==
    /\ \A c \in Calls :
          (c.op = "create_worktree" /\ c.outcome = "Ok") =>
              /\ UnderDataRoot(c.ctx.workspace_path)
              /\ Depth(c.ctx.workspace_path) = 2
    /\ \A p \in Slots : nested[p].kind = "absent"

----------------------------------------------------------------------------
(* C18: every context returned has a shared git directory exactly when it is
   one of a worktree; create_worktree returns a worktree with the shared
   directory, detect on the canonical repository neither. *)
C18_SharedIffWorktree ==
    \A c \in Calls :
        c.outcome = "Ok" =>
            /\ (c.ctx.shared_git_dir # <<>>) <=> c.ctx.is_worktree
            /\ c.op = "create_worktree" =>
                  c.ctx.is_worktree /\ c.ctx.shared_git_dir # <<>>
            /\ (c.op = "detect" /\ ~c.pre.aux) =>
                  ~c.ctx.is_worktree /\ c.ctx.shared_git_dir = <<>>

C18_Witness ==
    \E i, j \in 1..Len(calls) :
        /\ i < j
        /\ calls[i].op = "create_worktree"
        /\ calls[i].outcome = "Ok"
        /\ calls[j].op = "detect"
        /\ calls[j].outcome = "Ok"
        /\ calls[j].repo_path = calls[i].ctx.workspace_path
        /\ calls[j].ctx.is_worktree
        /\ calls[j].ctx.shared_git_dir = <<RepoDir \o <<".git">> >>
        /\ calls[j].ctx.shared_git_dir = calls[i].ctx.shared_git_dir

----------------------------------------------------------------------------
(* C19: the mounts of a context start with its workspace at "/workspace";
   there is one mount without shared git directory and two with it, the
   second being that directory at "/workspace/.git-main"; the context stays
   as it was returned. *)
C19_MountsOfContext ==
    /\ [](\A c \in Calls :
            c.mounts # <<>> =>
                /\ c.mounts[1] = <<c.ctx.workspace_path, "/workspace">>
                /\ c.ctx.shared_git_dir = <<>> => Len(c.mounts) = 1
                /\ c.ctx.shared_git_dir # <<>> =>
                      /\ Len(c.mounts) = 2
                      /\ c.mounts[2] =
                            <<c.ctx.shared_git_dir[1], "/workspace/.git-main">>)
    /\ [][\A k \in 1..Len(calls) : calls'[k].ctx = calls[k].ctx]_vars

C19_Witness ==
    \E c, d \in Calls :
        /\ Len(c.mounts) = 1
        /\ c.ctx.workspace_path = RepoDir
        /\ Len(d.mounts) = 2
        /\ d.op = "create_worktree"
        /\ d.mounts[1][1] = DataRoot \o <<"demo", "feature-x">>
        /\ d.mounts[2][1] = RepoDir \o <<".git">>

----------------------------------------------------------------------------
(* C20: when the status query of a candidate with a pointer file fails (it
   cannot be started or exits non-zero), the candidate is kept, whatever the
   other queries answer. *)
C20_FailedStatusIsKept ==
    \A e \in Steps :
        ( /\ ~e.run
          /\ HasPointer(e.before)
          /\ ~(e.before.status.spawned /\ e.before.status.success) ) =>
            e.decision.kind = "Keep"

----------------------------------------------------------------------------
(* C21: a clean candidate with a pointer file, outside the running set and
   not on main or master, none of whose four comparison queries succeeds, is
   kept as "branch has unmerged commits" at every age, after all four
   queries were run. *)
C21_NoBaseAnswersIsKept ==
    \A e \in Steps :
        ( /\ ~e.run
          /\ HasPointer(e.before)
          /\ ReportedClean(e.before)
          /\ OffBaseBranch(e.before)
          /\ FirstAnswer(e.before) = 0 ) =>
            /\ e.decision = Keep("branch has unmerged commits")
            /\ e.asked = Bases
            /\ entries[e.path] = e.before

C21_Witness ==
    \E e \in Steps :
        /\ ~e.run
        /\ HasPointer(e.before)
        /\ ReportedClean(e.before)
        /\ BranchName(e.before) = <<"feature-x">>
        /\ e.before.log = <<Exit(FALSE, <<>>), SpawnErr, Exit(FALSE, <<>>), SpawnErr>>
        /\ AgeKnown(e)
        /\ Age(e) = 2 * Hour
        /\ e.decision.kind = "Keep"

----------------------------------------------------------------------------
(* C22: a clean candidate with a pointer file, outside the running set,
   whose branch query cannot run, fails or prints no name, is kept as "branch
   has unmerged commits" whatever the comparison queries answer. *)
C22_UnknownBranchIsKept ==
    \A e \in Steps :
        ( /\ ~e.run
          /\ HasPointer(e.before)
          /\ ReportedClean(e.before)
          /\ \/ ~e.before.branch.spawned
             \/ ~e.before.branch.success
             \/ BranchName(e.before) = <<>> ) =>
            e.decision = Keep("branch has unmerged commits")

----------------------------------------------------------------------------
(* C23: an otherwise eligible candidate whose last-modified time cannot be
   read, or lies in the future of the clock, is kept; every candidate gets
   one decision with a reason. *)
C23_UnknownAgeIsKept ==
    \A e \in Steps :
        /\ (Eligible(e) /\ ~AgeKnown(e)) => e.decision.kind = "Keep"
        /\ e.decision.kind \in {"Keep", "Remove"}
        /\ e.decision.reason # ""

----------------------------------------------------------------------------
(* One pass over a single candidate that is classified Remove unless it is
   running, with every state of its pointer file and every outcome of the two
   removal strategies *)

Pointers == {"none", "dir", "unreadable", "unparsable", "noroot", "ok"}

InitRm ==
    /\ rootState = "ok"
    /\ \E pt \in Pointers, g \in {"ok", "nonzero", "err"},
          w \in {"ok", "partial", "fail"} :
          entries = [p \in Slots |->
                       IF p = Subject
                       THEN [Orphan EXCEPT !.pointer = pt, !.gitRm = g, !.rawRm = w]
                       ELSE Absent]
    /\ repos = [r \in Repos |-> IF r = Subject[1] THEN "dir" ELSE "absent"]
    /\ containers \in SUBSET {Subject}
    /\ engineOk = TRUE
    /\ verbose \in {"unset", "set"}
    /\ now = Start
    /\ pc = "idle"
    /\ running = {}
    /\ repoQueue = <<>>
    /\ cur = RepoOrder[1]
    /\ entryQueue = <<>>
    /\ result = CleanupResult
    /\ returned = <<>>
    /\ since = NoEvents
    /\ trace = <<>>
    /\ Unprovisioned

SpecRm == InitRm /\ [][NextOne]_vars

(* the structured removal can run and succeeds *)
StructuredSucceeds(c) == c.pointer = "ok" /\ c.gitRm = "ok"

----------------------------------------------------------------------------
(* C24: the structured removal runs first whenever the pointer file leads to
   a canonical repository; the recursive deletion runs exactly when the
   structured removal did not succeed; the removal succeeds when either
   strategy does, and fails with the error of the recursive deletion
   otherwise. *)
C24_StructuredThenRaw ==
    \A e \in Steps :
        e.decision.kind = "Remove" =>
            LET c == e.before
                errors == ResultOf(e.pass).errors
            IN  /\ e.tried # <<>>
                /\ c.pointer = "ok" <=> e.tried[1] = "git"
                /\ \A i \in 2..Len(e.tried) : e.tried[i] # "git"
                /\ (\E i \in 1..Len(e.tried) : e.tried[i] = "raw")
                      <=> ~StructuredSucceeds(c)
                /\ Len(e.tried) <= 2
                /\ e.rm = "ok" <=> (StructuredSucceeds(c) \/ c.rawRm = "ok")
                /\ e.rm = "err" =>
                      /\ c.rawRm # "ok"
                      /\ \E i \in 1..Len(errors) :
                            /\ Contains(errors[i], display(e.path))
                            /\ Contains(errors[i], <<"failed to remove directory: ">>)

C24_Witness ==
    \E e \in Steps :
        /\ e.decision.kind = "Remove"
        /\ e.before.pointer = "ok"
        /\ e.before.gitRm = "nonzero"
        /\ e.before.rawRm = "ok"
        /\ e.tried = <<"git", "raw">>
        /\ e.rm = "ok"
        /\ entries[e.path].kind = "absent"

----------------------------------------------------------------------------
(* One pass over repository directories that are empty or hold worktrees
   that are removed, kept or cannot be removed, and files *)

Stuck == [Orphan EXCEPT !.gitRm = "nonzero", !.rawRm = "fail"]

InitRepoDir ==
    /\ rootState = "ok"
    /\ entries \in [Slots -> {Absent, Orphan, Dirty, Stuck, FileEntry}]
    /\ repos \in [Repos -> {"absent", "dir"}]
    /\ \A p \in Populated(entries) : repos[p[1]] = "dir"
    /\ containers = {}
    /\ engineOk = TRUE
    /\ verbose \in {"unset", "set"}
    /\ now = Start
    /\ pc = "idle"
    /\ running = {}
    /\ repoQueue = <<>>
    /\ cur = RepoOrder[1]
    /\ entryQueue = <<>>
    /\ result = CleanupResult
    /\ returned = <<>>
    /\ since = NoEvents
    /\ trace = <<>>
    /\ Unprovisioned

SpecRepoDir == InitRepoDir /\ [][NextOne]_vars

(* the repository directory holds no entry *)
Empty(r) == \A p \in Slots : p[1] = r => entries[p].kind = "absent"

(* the inner loop over the repository directory has ended *)
AfterEntries == pc = "entries" /\ entryQueue = <<>>

(* the step that follows the inner loop *)
AfterEntriesStep == AfterEntries /\ pc' = "repos"

----------------------------------------------------------------------------
(* C25: a repository directory is removed only by the step that follows the
   processing of its entries and only if it is empty then; an empty one can
   be removed by that step; the step adds nothing to the result whether the
   removal succeeds or not; the data root stays. *)
C25_EmptyRepoDirIsRemoved ==
    /\ [][\A r \in Repos :
            repos'[r] # repos[r] =>
                /\ AfterEntriesStep
                /\ r = cur
                /\ Empty(r)
                /\ repos'[r] = "absent"]_vars
    /\ [][AfterEntriesStep => result' = result /\ entries' = entries]_vars
    /\ []((AfterEntries /\ Empty(cur)) =>
            ENABLED (FinishRepo /\ repos'[cur] = "absent"))
    /\ []((AfterEntries /\ Empty(cur)) =>
            ENABLED (FinishRepo /\ repos'[cur] = "dir"))
    /\ [][rootState' = rootState]_vars

C25_Witness ==
    /\ JustReturned(1)
    /\ repos[RepoOrder[1]] = "dir"
    /\ entries[SlotOrder[1]] = Stuck
    /\ entries[SlotOrder[2]].kind = "absent"
    /\ repos[RepoOrder[2]] = "absent"
    /\ returned[1].result.removed = <<SlotOrder[2], SlotOrder[3]>>
    /\ Len(returned[1].result.errors) = 1
    /\ rootState = "ok"

----------------------------------------------------------------------------
(* resolve_worktree_path on its own, for templates a configuration file may
   hold *)

Templates ==
    { base_path,
      <<"~", "/", "worktrees", "/", "{repo_name}">>,
      <<"/", "srv", "/", "worktrees", "/", "{repo_name}">>,
      <<"..", "/", "worktrees", "/", "{repo_name}">>,
      <<"worktrees">> }

Resolve ==
    /\ Len(calls) < MaxCalls
    /\ \E template \in Templates, repo_name \in Repos,
          repo_parent \in {home_dir, <<"/", "srv", "src">>} :
          calls' = Append(calls,
             [op |-> "resolve_worktree_path", template |-> template,
              repo_name |-> repo_name, repo_parent |-> repo_parent,
              path |-> resolve_worktree_path(
                          [worktree |-> [base_path |-> template]],
                          repo_name, repo_parent)])
    /\ UNCHANGED <<rootState, repos, entries, containers, engineOk, verbose,
                   now, pc, running, repoQueue, cur, entryQueue, result,
                   returned, since, trace, pending, nested, branches, head, prov>>

SpecResolve == InitProv /\ [][Resolve]_vars

(* the template with its placeholders filled in *)
Filled(c) ==
    replace(replace(c.template, "{repo_name}", <<c.repo_name>>),
            "{data_dir}", to_string_lossy(data_dir))

HomeShorthand(str) == Len(str) >= 2 /\ SubSeq(str, 1, 2) = <<"~", "/">>

IsPrefix(p, q) == Len(p) <= Len(q) /\ SubSeq(q, 1, Len(p)) = p

----------------------------------------------------------------------------
(* C26: a template that starts with "~/" resolves to the rest of it under
   the home directory and never under the parent of the repository; an
   absolute template is taken as it is; every other template resolves under
   the parent of the repository. *)
C26_TemplateResolution ==
    \A c \in Calls :
        c.op = "resolve_worktree_path" =>
            LET str == Filled(c)
            IN  IF HomeShorthand(str)
                THEN /\ c.path = home_dir \o PathBuf_from(SubSeq(str, 3, Len(str)))
                     /\ ~IsPrefix(c.repo_parent, c.path)
                ELSE IF str[1] = "/"
                THEN c.path = PathBuf_from(str)
                ELSE c.path = c.repo_parent \o PathBuf_from(str)

----------------------------------------------------------------------------
(* The user and the container runtime, at any moment of a pass *)

(* a file is changed in a worktree, at the second level or below it *)
Edits ==
    /\ \E p \in Slots :
          \/ /\ entries[p].kind = "dir"
             /\ entries[p].pointer = "ok"
             /\ ReportedClean(entries[p])
             /\ entries' = [entries EXCEPT ![p].status = Dirty.status]
             /\ UNCHANGED nested
          \/ /\ nested[p].kind = "dir"
             /\ nested[p].pointer = "ok"
             /\ ReportedClean(nested[p])
             /\ nested' = [nested EXCEPT ![p].status = Dirty.status]
             /\ UNCHANGED entries
    /\ UNCHANGED <<rootState, repos, containers, engineOk, verbose, now, pc,
                   running, repoQueue, cur, entryQueue, result, returned, since,
                   trace, pending, provVars>>

(* a ccs container is started on a worktree *)
ContainerStarts ==
    /\ \E p \in Slots :
          /\ entries[p].kind = "dir"
          /\ p \notin containers
          /\ containers' = containers \cup {p}
    /\ UNCHANGED <<rootState, repos, entries, engineOk, verbose, now, pc,
                   running, repoQueue, cur, entryQueue, result, returned, since,
                   trace, pending, nested, provVars>>

(* one call of create_worktree, work in the worktrees, and one pass *)
NextLayout ==
    \/ CreateOne
    \/ GitAddFails
    \/ GitAddMkdir
    \/ GitAddPointer
    \/ Edits
    \/ StartOne
    \/ NextRepo
    \/ ProcessEntry
    \/ FinishRepo
    \/ EndPass

SpecLayout == InitProv /\ [][NextLayout]_vars

(* one pass, its inner loop in two steps, while containers start and files
   are changed *)
NextLive ==
    \/ StartOne
    \/ NextRepo
    \/ ClassifyEntry
    \/ ActEntry
    \/ FinishRepo
    \/ EndPass
    \/ Edits
    \/ ContainerStarts

SpecLive == InitRace /\ [][NextLive]_vars

(* a worktree with work in it that is not in a base branch *)
Precious(c) ==
    /\ c.kind = "dir"
    /\ c.pointer = "ok"
    /\ ReportedDirty(c) \/ FoundUnmerged(c)

(* the step deletes the second-level directory p *)
Deletes(p) == entries[p].kind = "dir" /\ entries'[p].kind = "absent"

----------------------------------------------------------------------------
(* C27: no step deletes a second-level directory that is, or holds below
   it, a worktree with uncommitted changes or unmerged commits. *)
C27_NoWorkIsDeleted ==
    [][\A p \in Slots :
          Deletes(p) => ~Precious(entries[p]) /\ ~Precious(nested[p])]_vars

----------------------------------------------------------------------------
(* C28: no step of a pass deletes a worktree that a running container is
   bound to, or that holds uncommitted changes, at the moment of the
   deletion. *)
C28_NoDeletionInUse ==
    [][\A p \in Slots :
          Deletes(p) => p \notin containers /\ ~ReportedDirty(entries[p])]_vars

----------------------------------------------------------------------------
(* C29: a call of create_worktree that returns an error leaves the data
   root, the repository directories, the worktrees and the branches as they
   were when it was made. *)
C29_FailureLeavesNothing ==
    /\ [][(\E o \in {"NotARepo", "CannotCreateFromWorktree", "NoRepoName",
                      "Io", "WorktreeExists", "BranchExists",
                      "BranchNotFound", "Git2"} :
              ReturnsWith(o) /\ prov.pc = "none") =>
            UNCHANGED <<rootState, repos, entries, nested, branches>>]_vars
    /\ [][(\E o \in {"Io", "Git2"} : ReturnsWith(o) /\ prov.pc # "none") =>
            /\ ~prov.pre[1].branch => prov.branch_name \notin branches'
            /\ ~prov.pre[1].exists => ~exists(prov.path)']_vars

----------------------------------------------------------------------------
(* C30: the errors of a pass hold one string for each candidate classified
   Remove whose removal failed, and nothing else. *)
C30_ErrorsAreFailedRemovals ==
    \A k \in 1..(IF pc = "idle" THEN Len(returned) ELSE Pass) :
        /\ Len(ResultOf(k).errors) =
              Cardinality({i \in 1..Len(trace) :
                              /\ trace[i].pass = k
                              /\ trace[i].decision.kind = "Remove"
                              /\ trace[i].rm = "err"})
        /\ \A e \in Steps :
              (e.pass = k /\ e.decision.kind = "Keep") =>
                  \A i \in 1..Len(ResultOf(k).errors) :
                      ~Contains(ResultOf(k).errors[i], <<e.decision.reason>>)

====
